---- MODULE Spec2Model ----
(***************************************************************************)
(* Model of envs/quadrotors/quad_multi_model.py: the encoder registration  *)
(* function register_models and the two encoders' forward passes.          *)
(***************************************************************************)
EXTENDS Integers, Sequences, FiniteSets, TLC

VARIABLES
    ENCODER_REGISTRY,   \* the framework's registry: encoder name -> encoder class
    initial_registry,   \* the registry as other code left it before the first call
    reg_calls,          \* the invocations of register_custom_encoder, in order
    history,            \* one record per register_models call, in order
    encoder,            \* the constructed encoder module, or NoEncoder
    obs,                \* obs_dict['obs'] of the pending forward call, or NoTensor
    out                 \* what forward returned or raised, or NoTensor

registryVars == <<ENCODER_REGISTRY, initial_registry, reg_calls, history>>
encoderVars == <<encoder, obs, out>>
vars == <<ENCODER_REGISTRY, initial_registry, reg_calls, history, encoder, obs, out>>

(***************************************************************************)
(* Bounds of the model.                                                    *)
(***************************************************************************)
MaxCalls == 3
MaxBatch == 3       \* rows of an observation batch
MaxNumel == 10      \* elements of an observation batch
MaxNeighbors == 3   \* neighbors in an observation row

NoEncoder == [kind |-> "none"]
NoTensor == [none |-> TRUE]

(***************************************************************************)
(* Part 1: register_models.                                                *)
(***************************************************************************)
DEEPSET == "quad_multi_encoder_deepset"
HISTOGRAM == "quad_multi_encoder_histogram"

RecognizedKeys == {DEEPSET, HISTOGRAM}

\* The keys callers pass: the two recognized literals and two others.
Keys == RecognizedKeys \cup {"not_a_real_encoder", "quad_multi_encoder_attention"}

\* The encoder classes a registry entry may hold.
Classes == {"QuadMultiMeanEncoder", "QuadMultiHistogramEncoder", "OtherEncoder"}

\* A call made without an argument.
NoArg == "<no argument>"

NoError == <<>>

\* NotImplementedError(f'encoder {quad_custom_encoder_name} not supported!')
NotImplementedError(quad_custom_encoder_name) ==
    <<"NotImplementedError", "encoder ", quad_custom_encoder_name, " not supported!">>

\* Every registry other code may have built before register_models runs.
Registries == UNION {[D -> Classes] : D \in SUBSET Keys}

\* register_custom_encoder(name, cls): stores cls under name.
register_custom_encoder(custom_encoder_name, encoder_cls) ==
    /\ ENCODER_REGISTRY' =
          [k \in DOMAIN ENCODER_REGISTRY \cup {custom_encoder_name} |->
              IF k = custom_encoder_name THEN encoder_cls ELSE ENCODER_REGISTRY[k]]
    /\ reg_calls' = Append(reg_calls, <<custom_encoder_name, encoder_cls>>)

\* The record of one call: arg is what the caller passed, name the parameter's value.
Record(arg, name, raised) ==
    history' = Append(history,
        [arg |-> arg, name |-> name, pre |-> ENCODER_REGISTRY,
         post |-> ENCODER_REGISTRY', raised |-> raised,
         registered |-> Len(reg_calls') - Len(reg_calls)])

\* A faulty variant: the two classes are registered under each other's key.
register_models_swapped(arg, quad_custom_encoder_name) ==
    IF quad_custom_encoder_name \notin DOMAIN ENCODER_REGISTRY
    THEN IF quad_custom_encoder_name = DEEPSET
         THEN /\ register_custom_encoder(quad_custom_encoder_name, "QuadMultiHistogramEncoder")
              /\ Record(arg, quad_custom_encoder_name, NoError)
         ELSE IF quad_custom_encoder_name = HISTOGRAM
         THEN /\ register_custom_encoder(quad_custom_encoder_name, "QuadMultiMeanEncoder")
              /\ Record(arg, quad_custom_encoder_name, NoError)
         ELSE /\ UNCHANGED <<ENCODER_REGISTRY, reg_calls>>
              /\ Record(arg, quad_custom_encoder_name,
                        NotImplementedError(quad_custom_encoder_name))
    ELSE /\ UNCHANGED <<ENCODER_REGISTRY, reg_calls>>
         /\ Record(arg, quad_custom_encoder_name, NoError)

\* A faulty variant: the membership test is missing.
register_models_noguard(arg, quad_custom_encoder_name) ==
    IF quad_custom_encoder_name = DEEPSET
    THEN /\ register_custom_encoder(quad_custom_encoder_name, "QuadMultiMeanEncoder")
         /\ Record(arg, quad_custom_encoder_name, NoError)
    ELSE IF quad_custom_encoder_name = HISTOGRAM
    THEN /\ register_custom_encoder(quad_custom_encoder_name, "QuadMultiHistogramEncoder")
         /\ Record(arg, quad_custom_encoder_name, NoError)
    ELSE /\ UNCHANGED <<ENCODER_REGISTRY, reg_calls>>
         /\ Record(arg, quad_custom_encoder_name,
                   NotImplementedError(quad_custom_encoder_name))

\* A faulty variant: the else branch is missing, an unrecognized key is passed over.
register_models_silent(arg, quad_custom_encoder_name) ==
    IF quad_custom_encoder_name \notin DOMAIN ENCODER_REGISTRY
    THEN IF quad_custom_encoder_name = DEEPSET
         THEN /\ register_custom_encoder(quad_custom_encoder_name, "QuadMultiMeanEncoder")
              /\ Record(arg, quad_custom_encoder_name, NoError)
         ELSE IF quad_custom_encoder_name = HISTOGRAM
         THEN /\ register_custom_encoder(quad_custom_encoder_name, "QuadMultiHistogramEncoder")
              /\ Record(arg, quad_custom_encoder_name, NoError)
         ELSE /\ UNCHANGED <<ENCODER_REGISTRY, reg_calls>>
              /\ Record(arg, quad_custom_encoder_name, NoError)
    ELSE /\ UNCHANGED <<ENCODER_REGISTRY, reg_calls>>
         /\ Record(arg, quad_custom_encoder_name, NoError)

\* A faulty variant: the membership test is taken on the class, so that a key holding
\* another class is registered again.
register_models_reregister(arg, quad_custom_encoder_name) ==
    IF \/ quad_custom_encoder_name \notin DOMAIN ENCODER_REGISTRY
       \/ /\ quad_custom_encoder_name \in RecognizedKeys
          /\ ENCODER_REGISTRY[quad_custom_encoder_name] = "OtherEncoder"
    THEN IF quad_custom_encoder_name = DEEPSET
         THEN /\ register_custom_encoder(quad_custom_encoder_name, "QuadMultiMeanEncoder")
              /\ Record(arg, quad_custom_encoder_name, NoError)
         ELSE IF quad_custom_encoder_name = HISTOGRAM
         THEN /\ register_custom_encoder(quad_custom_encoder_name, "QuadMultiHistogramEncoder")
              /\ Record(arg, quad_custom_encoder_name, NoError)
         ELSE /\ UNCHANGED <<ENCODER_REGISTRY, reg_calls>>
              /\ Record(arg, quad_custom_encoder_name,
                        NotImplementedError(quad_custom_encoder_name))
    ELSE /\ UNCHANGED <<ENCODER_REGISTRY, reg_calls>>
         /\ Record(arg, quad_custom_encoder_name, NoError)

\* A faulty variant: an unrecognized key falls back to the default encoder.
register_models_fallback(arg, quad_custom_encoder_name) ==
    IF quad_custom_encoder_name \notin DOMAIN ENCODER_REGISTRY
    THEN IF quad_custom_encoder_name = HISTOGRAM
         THEN /\ register_custom_encoder(quad_custom_encoder_name, "QuadMultiHistogramEncoder")
              /\ Record(arg, quad_custom_encoder_name, NoError)
         ELSE /\ register_custom_encoder(quad_custom_encoder_name, "QuadMultiMeanEncoder")
              /\ Record(arg, quad_custom_encoder_name, NoError)
    ELSE /\ UNCHANGED <<ENCODER_REGISTRY, reg_calls>>
         /\ Record(arg, quad_custom_encoder_name, NoError)

\* register_models(quad_custom_encoder_name): a raise ends the call and is
\* recorded; the registry is left as the call's writes made it.
register_models(arg, quad_custom_encoder_name) ==
    IF quad_custom_encoder_name \notin DOMAIN ENCODER_REGISTRY
    THEN IF quad_custom_encoder_name = DEEPSET
         THEN /\ register_custom_encoder(quad_custom_encoder_name, "QuadMultiMeanEncoder")
              /\ Record(arg, quad_custom_encoder_name, NoError)
         ELSE IF quad_custom_encoder_name = HISTOGRAM
         THEN /\ register_custom_encoder(quad_custom_encoder_name, "QuadMultiHistogramEncoder")
              /\ Record(arg, quad_custom_encoder_name, NoError)
         ELSE /\ UNCHANGED <<ENCODER_REGISTRY, reg_calls>>
              /\ Record(arg, quad_custom_encoder_name,
                        NotImplementedError(quad_custom_encoder_name))
    ELSE /\ UNCHANGED <<ENCODER_REGISTRY, reg_calls>>
         /\ Record(arg, quad_custom_encoder_name, NoError)

\* The default of the parameter quad_custom_encoder_name.
DefaultName == "quad_multi_encoder_deepset"

\* A caller calls register_models(k).
CallRegisterModels ==
    /\ Len(history) < MaxCalls
    /\ \E k \in Keys : register_models(k, k)
    /\ UNCHANGED initial_registry
    /\ UNCHANGED encoderVars

\* A caller calls register_models().
CallRegisterModelsDefault ==
    /\ Len(history) < MaxCalls
    /\ register_models(NoArg, DefaultName)
    /\ UNCHANGED initial_registry
    /\ UNCHANGED encoderVars

Init ==
    /\ ENCODER_REGISTRY \in Registries
    /\ initial_registry = ENCODER_REGISTRY
    /\ reg_calls = <<>>
    /\ history = <<>>
    /\ encoder = NoEncoder
    /\ obs = NoTensor
    /\ out = NoTensor

Next ==
    \/ CallRegisterModels
    \/ CallRegisterModelsDefault

Spec == Init /\ [][Next]_vars

(***************************************************************************)
(* Claims about register_models.                                           *)
(***************************************************************************)
Calls == 1..Len(history)

\* The class the documentation pairs with each recognized key.
MatchingClass(k) ==
    IF k = "quad_multi_encoder_deepset" THEN "QuadMultiMeanEncoder"
    ELSE "QuadMultiHistogramEncoder"

IsNotImplementedErrorNaming(raised, k) ==
    /\ Len(raised) = 4
    /\ raised[1] = "NotImplementedError"
    /\ raised[3] = k

\* C1: a call on a recognized key that is not in the registry returns without
\* error and a lookup of the key then returns the matching class (right after
\* the call and ever after); a call without an argument is a call on
\* 'quad_multi_encoder_deepset'.
C1_RegistersMatchingClass ==
    \A n \in Calls :
        LET h == history[n] IN
        /\ h.arg = NoArg => h.name = "quad_multi_encoder_deepset"
        /\ h.arg # NoArg => h.name = h.arg
        /\ (h.name \in RecognizedKeys /\ h.name \notin DOMAIN h.pre) =>
              /\ h.raised = NoError
              /\ h.name \in DOMAIN h.post
              /\ h.post[h.name] = MatchingClass(h.name)
              /\ h.name \in DOMAIN ENCODER_REGISTRY
              /\ ENCODER_REGISTRY[h.name] = MatchingClass(h.name)

C1_Witness ==
    /\ \E n \in Calls :
          /\ history[n].arg = NoArg
          /\ "quad_multi_encoder_deepset" \notin DOMAIN history[n].pre
          /\ ENCODER_REGISTRY["quad_multi_encoder_deepset"] = "QuadMultiMeanEncoder"
    /\ \E n \in Calls :
          /\ history[n].arg = "quad_multi_encoder_histogram"
          /\ "quad_multi_encoder_histogram" \notin DOMAIN history[n].pre
          /\ ENCODER_REGISTRY["quad_multi_encoder_histogram"] = "QuadMultiHistogramEncoder"

\* C2: a call on a key that is already in the registry returns without error,
\* does not call register_custom_encoder and leaves the whole registry as it
\* was; two calls in a row on the same key leave the registry as one does.
C2_PresentKeyIsNoOp ==
    /\ \A n \in Calls :
          LET h == history[n] IN
          h.name \in DOMAIN h.pre =>
              /\ h.raised = NoError
              /\ h.registered = 0
              /\ h.post = h.pre
    /\ \A n \in Calls :
          (n + 1 \in Calls /\ history[n + 1].name = history[n].name) =>
              /\ history[n + 1].pre = history[n].post
              /\ history[n + 1].post = history[n].post

C2_Witness ==
    \E n \in Calls :
        /\ n + 1 \in Calls
        /\ history[n].name = history[n + 1].name
        /\ history[n].registered = 1
        /\ history[n + 1].registered = 0
        /\ \E m \in Calls :
              /\ history[m].name \notin RecognizedKeys
              /\ history[m].name \in DOMAIN history[m].pre

\* C3, as stated: every call on a key that is not one of the two recognized
\* literals fails with a NotImplementedError naming the key, whatever the
\* registry holds.
C3_UnrecognizedAlwaysRaises ==
    \A n \in Calls :
        LET h == history[n] IN
        h.name \notin RecognizedKeys => IsNotImplementedErrorNaming(h.raised, h.name)

\* C3, amended: every call on a key that is not one of the two recognized
\* literals and is not in the registry fails with a NotImplementedError
\* naming the key; on such a key that is already in the registry the call
\* returns without error.
C3_UnrecognizedAbsentRaises ==
    \A n \in Calls :
        LET h == history[n] IN
        /\ (h.name \notin RecognizedKeys /\ h.name \notin DOMAIN h.pre) =>
               IsNotImplementedErrorNaming(h.raised, h.name)
        /\ (h.name \notin RecognizedKeys /\ h.name \in DOMAIN h.pre) =>
               h.raised = NoError

C3_Witness ==
    \E n \in Calls :
        /\ history[n].name = "not_a_real_encoder"
        /\ "not_a_real_encoder" \notin DOMAIN history[n].pre
        /\ history[n].raised[3] = "not_a_real_encoder"

\* C4: over any sequence of calls register_custom_encoder is invoked at most
\* once per key, and an entry once in the registry (written by
\* register_models or there before) is never overwritten or removed.
C4_WrittenAtMostOnce ==
    /\ \A i, j \in 1..Len(reg_calls) : reg_calls[i][1] = reg_calls[j][1] => i = j
    /\ \A i \in 1..Len(reg_calls) :
          /\ reg_calls[i][1] \in DOMAIN ENCODER_REGISTRY
          /\ ENCODER_REGISTRY[reg_calls[i][1]] = reg_calls[i][2]
    /\ \A n \in Calls : \A k \in DOMAIN history[n].pre :
          /\ k \in DOMAIN ENCODER_REGISTRY
          /\ ENCODER_REGISTRY[k] = history[n].pre[k]

C4_Witness ==
    /\ Len(history) = 3
    /\ Len(reg_calls) = 1
    /\ history[1].name = history[3].name
    /\ history[1].registered = 1
    /\ history[2].raised # NoError

\* C8: from a registry holding neither recognized key, after any sequence of
\* calls the keys added are recognized keys, each mapped to its class, the
\* entries there before are unchanged, a call that raises leaves the registry
\* as it was, and a later call on an absent recognized key still registers.
C8_RegistryInvariant ==
    (DOMAIN initial_registry \cap RecognizedKeys = {}) =>
        /\ (DOMAIN ENCODER_REGISTRY \ DOMAIN initial_registry) \subseteq
              {"quad_multi_encoder_deepset", "quad_multi_encoder_histogram"}
        /\ "quad_multi_encoder_deepset" \in DOMAIN ENCODER_REGISTRY =>
              ENCODER_REGISTRY["quad_multi_encoder_deepset"] = "QuadMultiMeanEncoder"
        /\ "quad_multi_encoder_histogram" \in DOMAIN ENCODER_REGISTRY =>
              ENCODER_REGISTRY["quad_multi_encoder_histogram"] = "QuadMultiHistogramEncoder"
        /\ \A k \in DOMAIN initial_registry :
              /\ k \in DOMAIN ENCODER_REGISTRY
              /\ ENCODER_REGISTRY[k] = initial_registry[k]
        /\ \A n \in Calls :
              history[n].raised # NoError => history[n].post = history[n].pre
        /\ \A n, m \in Calls :
              (/\ n < m
               /\ history[n].raised # NoError
               /\ history[m].name \in RecognizedKeys
               /\ history[m].name \notin DOMAIN history[m].pre) =>
                  /\ history[m].raised = NoError
                  /\ history[m].registered = 1
                  /\ history[m].post[history[m].name] = MatchingClass(history[m].name)

C8_Witness ==
    /\ DOMAIN initial_registry = {"quad_multi_encoder_attention"}
    /\ Len(history) = 3
    /\ history[1].raised # NoError
    /\ history[2].registered = 1
    /\ history[3].registered = 1
    /\ DOMAIN ENCODER_REGISTRY = {"quad_multi_encoder_attention",
          "quad_multi_encoder_deepset", "quad_multi_encoder_histogram"}

(***************************************************************************)
(* Part 2: the tensor operations the encoders use.  A tensor is a shape    *)
(* and its elements in row-major order; an element is an exact rational    *)
(* <<numerator, denominator>> in lowest terms, <<0, 0>> standing for nan.  *)
(***************************************************************************)
RECURSIVE GCD(_, _)
GCD(a, b) == IF b = 0 THEN a ELSE GCD(b, a % b)

Abs(x) == IF x < 0 THEN -x ELSE x

NaN == <<0, 0>>

Q(n, d) ==
    IF d = 0 THEN NaN
    ELSE LET g == GCD(Abs(n), Abs(d))
             sgn == IF d < 0 THEN -1 ELSE 1
         IN <<sgn * (n \div g), sgn * (d \div g)>>

QAdd(x, y) == IF x[2] = 0 \/ y[2] = 0 THEN NaN ELSE Q(x[1] * y[2] + y[1] * x[2], x[2] * y[2])

QScale(w, x) == IF x[2] = 0 THEN NaN ELSE Q(w * x[1], x[2])

QDiv(x, n) == IF x[2] = 0 THEN NaN ELSE Q(x[1], x[2] * n)

RECURSIVE Prod(_)
Prod(shape) == IF shape = <<>> THEN 1 ELSE Head(shape) * Prod(Tail(shape))

Tensor(shape, data) == [shape |-> shape, data |-> data]

Numel(t) == Len(t.data)

\* The exception a tensor operation raises, and the statement that raised it.
RuntimeError(at) == [error |-> "RuntimeError", at |-> at]

IsError(x) == "error" \in DOMAIN x

IsTensor(x) == "shape" \in DOMAIN x

\* t[:, lo:hi] of a 2-D tensor, lo and hi the 0-based bounds Python clamps.
SliceCols(t, lo, hi) ==
    LET rows == t.shape[1]
        cols == t.shape[2]
        a == IF lo > cols THEN cols ELSE lo
        b == IF hi > cols THEN cols ELSE hi
        w == IF b > a THEN b - a ELSE 0
    IN Tensor(<<rows, w>>,
              [k \in 1..(rows * w) |->
                  t.data[((k - 1) \div w) * cols + a + ((k - 1) % w) + 1]])

\* A faulty variant: a reshape that drops the elements that do not fill the shape.
reshape_truncating(t, shape, at) ==
    LET known == Prod([i \in 1..Len(shape) |-> IF shape[i] = -1 THEN 1 ELSE shape[i]])
        inferred == IF known = 0 THEN 0 ELSE Numel(t) \div known
        newshape == [i \in 1..Len(shape) |-> IF shape[i] = -1 THEN inferred ELSE shape[i]]
    IN Tensor(newshape, SubSeq(t.data, 1, Prod(newshape)))

\* t.reshape(shape): at most one dimension is -1 and is inferred; the
\* elements keep their row-major order.
reshape(t, shape, at) ==
    LET known == Prod([i \in 1..Len(shape) |-> IF shape[i] = -1 THEN 1 ELSE shape[i]])
        infer == \E i \in 1..Len(shape) : shape[i] = -1
    IN IF infer
       THEN IF known = 0 \/ Numel(t) % known # 0
            THEN RuntimeError(at)
            ELSE Tensor([i \in 1..Len(shape) |->
                            IF shape[i] = -1 THEN Numel(t) \div known ELSE shape[i]],
                        t.data)
       ELSE IF known # Numel(t)
            THEN RuntimeError(at)
            ELSE Tensor(shape, t.data)

RECURSIVE Dot(_, _, _, _)
\* sum of w[i] * data[base + i] for i in 1..n
Dot(w, data, base, n) ==
    IF n = 0 THEN <<0, 1>>
    ELSE QAdd(Dot(w, data, base, n - 1), QScale(w[n], data[base + n]))

\* The entries nn.Linear's initialisation gives a layer's weight and bias.
WeightInit(seed, o, i) == ((seed + 3 * o + 2 * i) % 5) - 2

BiasInit(seed, o) == ((seed + o) % 3) - 1

\* nn.Linear(in_features, out_features)
nn_Linear(in_features, out_features, seed) ==
    [kind |-> "Linear", in_features |-> in_features, out_features |-> out_features,
     weight |-> [o \in 1..out_features |-> [i \in 1..in_features |-> WeightInit(seed, o, i)]],
     bias |-> [o \in 1..out_features |-> BiasInit(seed, o)]]

\* nonlinearity(cfg), with cfg.nonlinearity = 'relu'
nonlinearity == [kind |-> "ReLU"]

LastDim(t) == t.shape[Len(t.shape)]

\* Linear.forward: y = x W^T + b over the last dimension.
LinearForward(layer, t, at) ==
    IF LastDim(t) # layer.in_features
    THEN RuntimeError(at)
    ELSE LET n == layer.in_features
             m == layer.out_features
             rows == Numel(t) \div n
         IN Tensor([i \in 1..Len(t.shape) |-> IF i = Len(t.shape) THEN m ELSE t.shape[i]],
                   [k \in 1..(rows * m) |->
                       LET r == (k - 1) \div m
                           o == ((k - 1) % m) + 1
                       IN QAdd(Dot(layer.weight[o], t.data, r * n, n), <<layer.bias[o], 1>>)])

ReLUForward(t) ==
    Tensor(t.shape, [k \in 1..Numel(t) |-> IF t.data[k][1] < 0 THEN <<0, 1>> ELSE t.data[k]])

RECURSIVE Sequential(_, _, _)
\* nn.Sequential.forward: the modules in order; an exception ends the pass.
Sequential(modules, t, at) ==
    IF modules = <<>> THEN t
    ELSE LET m == Head(modules)
             y == IF m.kind = "Linear" THEN LinearForward(m, t, at) ELSE ReLUForward(t)
         IN IF IsError(y) THEN y ELSE Sequential(Tail(modules), y, at)

RECURSIVE SumDim1(_, _, _, _)
\* sum over j in 1..n of the 3-D tensor t's element [b, j, h] (0-based b, h)
SumDim1(t, b, h, n) ==
    IF n = 0 THEN <<0, 1>>
    ELSE QAdd(SumDim1(t, b, h, n - 1),
              t.data[(b * t.shape[2] + (n - 1)) * t.shape[3] + h + 1])

\* A faulty variant: the first entry along dim 1 in place of the mean.
torch_select_first(t) ==
    LET B == t.shape[1]
        H == t.shape[3]
    IN Tensor(<<B, H>>,
              [k \in 1..(B * H) |->
                  IF t.shape[2] = 0 THEN NaN
                  ELSE t.data[((k - 1) \div H) * t.shape[2] * H + ((k - 1) % H) + 1]])

\* torch.mean(t, dim=1) of a 3-D tensor: the mean of an empty dimension is nan.
torch_mean_dim1(t) ==
    LET B == t.shape[1]
        N == t.shape[2]
        H == t.shape[3]
    IN Tensor(<<B, H>>,
              [k \in 1..(B * H) |->
                  QDiv(SumDim1(t, (k - 1) \div H, (k - 1) % H, N), N)])

\* torch.cat((a, b), dim=1) of two 2-D tensors
torch_cat_dim1(a, b, at) ==
    IF a.shape[1] # b.shape[1]
    THEN RuntimeError(at)
    ELSE LET rows == a.shape[1]
             wa == a.shape[2]
             wb == b.shape[2]
             w == wa + wb
         IN Tensor(<<rows, w>>,
                   [k \in 1..(rows * w) |->
                       LET r == (k - 1) \div w
                           c == (k - 1) % w
                       IN IF c < wa THEN a.data[r * wa + c + 1]
                          ELSE b.data[r * wb + (c - wa) + 1]])

\* calc_num_elements(module, module_input_shape): the number of elements the
\* module returns for one input of that shape.
calc_num_elements(modules, module_input_shape) ==
    Numel(Sequential(modules,
                     Tensor(<<1>> \o module_input_shape,
                            [k \in 1..Prod(module_input_shape) |-> <<0, 1>>]),
                     "calc_num_elements"))

(***************************************************************************)
(* Part 3: the two encoders.                                               *)
(***************************************************************************)
\* A faulty variant: the final layer is as wide as the concatenated embeddings.
QuadMultiMeanEncoder_init_wide(cfg, self_obs_dim, neighbor_obs_dim, neighbor_hidden_size) ==
    LET fc_encoder_layer == cfg.hidden_size
        self_encoder == <<nn_Linear(self_obs_dim, fc_encoder_layer, cfg.seed),
                          nonlinearity,
                          nn_Linear(fc_encoder_layer, fc_encoder_layer, cfg.seed + 1),
                          nonlinearity>>
        neighbor_encoder == <<nn_Linear(neighbor_obs_dim, neighbor_hidden_size, cfg.seed + 2),
                              nonlinearity>>
        self_encoder_out_size == calc_num_elements(self_encoder, <<self_obs_dim>>)
        neighbor_encoder_out_size == calc_num_elements(neighbor_encoder, <<neighbor_obs_dim>>)
    IN [kind |-> "QuadMultiMeanEncoder",
        cfg |-> cfg,
        self_obs_dim |-> self_obs_dim,
        neighbor_obs_dim |-> neighbor_obs_dim,
        neighbor_hidden_size |-> neighbor_hidden_size,
        self_encoder |-> self_encoder,
        neighbor_encoder |-> neighbor_encoder,
        self_encoder_out_size |-> self_encoder_out_size,
        neighbor_encoder_out_size |-> neighbor_encoder_out_size,
        feed_forward |-> nn_Linear(self_encoder_out_size + neighbor_encoder_out_size,
                                   self_encoder_out_size + neighbor_encoder_out_size,
                                   cfg.seed + 3)]

\* QuadMultiMeanEncoder.__init__
QuadMultiMeanEncoder_init(cfg, self_obs_dim, neighbor_obs_dim, neighbor_hidden_size) ==
    LET fc_encoder_layer == cfg.hidden_size
        self_encoder == <<nn_Linear(self_obs_dim, fc_encoder_layer, cfg.seed),
                          nonlinearity,
                          nn_Linear(fc_encoder_layer, fc_encoder_layer, cfg.seed + 1),
                          nonlinearity>>
        neighbor_encoder == <<nn_Linear(neighbor_obs_dim, neighbor_hidden_size, cfg.seed + 2),
                              nonlinearity>>
        self_encoder_out_size == calc_num_elements(self_encoder, <<self_obs_dim>>)
        neighbor_encoder_out_size == calc_num_elements(neighbor_encoder, <<neighbor_obs_dim>>)
    IN [kind |-> "QuadMultiMeanEncoder",
        cfg |-> cfg,
        self_obs_dim |-> self_obs_dim,
        neighbor_obs_dim |-> neighbor_obs_dim,
        neighbor_hidden_size |-> neighbor_hidden_size,
        self_encoder |-> self_encoder,
        neighbor_encoder |-> neighbor_encoder,
        self_encoder_out_size |-> self_encoder_out_size,
        neighbor_encoder_out_size |-> neighbor_encoder_out_size,
        feed_forward |-> nn_Linear(self_encoder_out_size + neighbor_encoder_out_size,
                                   cfg.hidden_size, cfg.seed + 3)]

\* A faulty variant: the embeddings are regrouped neighbor-major, as (neighbors, batch,
\* hidden), and then transposed to (batch, neighbors, hidden).
QuadMultiMeanEncoder_neighbor_embeds_transposed(self, o) ==
    LET obs_self == SliceCols(o, 0, self.self_obs_dim)
        obs_neighbors0 == SliceCols(o, self.self_obs_dim, o.shape[2])
        obs_neighbors == reshape(obs_neighbors0, <<-1, self.neighbor_obs_dim>>,
                                 "reshape(-1, neighbor_obs_dim)")
        neighbor_embeds0 == Sequential(self.neighbor_encoder, obs_neighbors, "neighbor_encoder")
        batch_size == obs_self.shape[1]
        e == reshape(neighbor_embeds0, <<-1, batch_size, self.neighbor_hidden_size>>,
                     "reshape(batch_size, -1, neighbor_hidden_size)")
    IN IF IsError(obs_neighbors) THEN obs_neighbors
       ELSE IF IsError(neighbor_embeds0) THEN neighbor_embeds0
       ELSE IF IsError(e) THEN e
       ELSE LET N == e.shape[1]
                B == e.shape[2]
                H == e.shape[3]
            IN Tensor(<<B, N, H>>,
                      [k \in 1..(B * N * H) |->
                          LET b == (k - 1) \div (N * H)
                              n == ((k - 1) \div H) % N
                              h == (k - 1) % H
                          IN e.data[(n * B + b) * H + h + 1]])

\* QuadMultiMeanEncoder.forward, the neighbor embeddings: the neighbor
\* segment flattened to rows of neighbor_obs_dim, encoded, and regrouped as
\* (batch, neighbors, hidden); or the exception of the statement that raises.
QuadMultiMeanEncoder_neighbor_embeds(self, o) ==
    LET obs_self == SliceCols(o, 0, self.self_obs_dim)
        obs_neighbors0 == SliceCols(o, self.self_obs_dim, o.shape[2])
        obs_neighbors == reshape(obs_neighbors0, <<-1, self.neighbor_obs_dim>>,
                                 "reshape(-1, neighbor_obs_dim)")
        neighbor_embeds0 == Sequential(self.neighbor_encoder, obs_neighbors, "neighbor_encoder")
        batch_size == obs_self.shape[1]
    IN IF IsError(obs_neighbors) THEN obs_neighbors
       ELSE IF IsError(neighbor_embeds0) THEN neighbor_embeds0
       ELSE reshape(neighbor_embeds0, <<batch_size, -1, self.neighbor_hidden_size>>,
                    "reshape(batch_size, -1, neighbor_hidden_size)")

\* QuadMultiMeanEncoder.forward: the output tensor, or the exception of the
\* first statement that raises.
QuadMultiMeanEncoder_forward(self, obs_dict) ==
    LET o == obs_dict.obs
        obs_self == SliceCols(o, 0, self.self_obs_dim)
        self_embed == Sequential(self.self_encoder, obs_self, "self_encoder")
        neighbor_embeds == QuadMultiMeanEncoder_neighbor_embeds(self, o)
        mean_embed == torch_mean_dim1(neighbor_embeds)
        embeddings == torch_cat_dim1(self_embed, mean_embed, "cat")
    IN IF IsError(self_embed) THEN self_embed
       ELSE IF IsError(neighbor_embeds) THEN neighbor_embeds
       ELSE IF IsError(embeddings) THEN embeddings
       ELSE LinearForward(self.feed_forward, embeddings, "feed_forward")

\* A faulty variant: encoder_out_size is the width of the concatenated embeddings.
QuadMultiHistogramEncoder_init_concat(cfg, self_obs_dim, histogram_bins, histogram_hidden_size) ==
    LET fc_encoder_layer == cfg.hidden_size
        self_encoder == <<nn_Linear(self_obs_dim, fc_encoder_layer, cfg.seed),
                          nonlinearity,
                          nn_Linear(fc_encoder_layer, fc_encoder_layer, cfg.seed + 1),
                          nonlinearity>>
        histogram_encoder == <<nn_Linear(histogram_bins, histogram_hidden_size, cfg.seed + 2),
                               nonlinearity>>
        self_encoder_out_size == calc_num_elements(self_encoder, <<self_obs_dim>>)
        histogram_encoder_out_size == calc_num_elements(histogram_encoder, <<histogram_bins>>)
    IN [kind |-> "QuadMultiHistogramEncoder",
        cfg |-> cfg,
        self_obs_dim |-> self_obs_dim,
        histogram_bins |-> histogram_bins,
        histogram_hidden_size |-> histogram_hidden_size,
        self_encoder |-> self_encoder,
        histogram_encoder |-> histogram_encoder,
        self_encoder_out_size |-> self_encoder_out_size,
        histogram_encoder_out_size |-> histogram_encoder_out_size,
        feed_forward |-> nn_Linear(self_encoder_out_size + histogram_encoder_out_size,
                                   cfg.hidden_size, cfg.seed + 3),
        encoder_out_size |-> self_encoder_out_size + histogram_encoder_out_size]

\* QuadMultiHistogramEncoder.__init__
QuadMultiHistogramEncoder_init(cfg, self_obs_dim, histogram_bins, histogram_hidden_size) ==
    LET fc_encoder_layer == cfg.hidden_size
        self_encoder == <<nn_Linear(self_obs_dim, fc_encoder_layer, cfg.seed),
                          nonlinearity,
                          nn_Linear(fc_encoder_layer, fc_encoder_layer, cfg.seed + 1),
                          nonlinearity>>
        histogram_encoder == <<nn_Linear(histogram_bins, histogram_hidden_size, cfg.seed + 2),
                               nonlinearity>>
        self_encoder_out_size == calc_num_elements(self_encoder, <<self_obs_dim>>)
        histogram_encoder_out_size == calc_num_elements(histogram_encoder, <<histogram_bins>>)
    IN [kind |-> "QuadMultiHistogramEncoder",
        cfg |-> cfg,
        self_obs_dim |-> self_obs_dim,
        histogram_bins |-> histogram_bins,
        histogram_hidden_size |-> histogram_hidden_size,
        self_encoder |-> self_encoder,
        histogram_encoder |-> histogram_encoder,
        self_encoder_out_size |-> self_encoder_out_size,
        histogram_encoder_out_size |-> histogram_encoder_out_size,
        feed_forward |-> nn_Linear(self_encoder_out_size + histogram_encoder_out_size,
                                   cfg.hidden_size, cfg.seed + 3),
        encoder_out_size |-> cfg.hidden_size]

\* QuadMultiHistogramEncoder.forward
QuadMultiHistogramEncoder_forward(self, obs_dict) ==
    LET o == obs_dict.obs
        obs_self == SliceCols(o, 0, self.self_obs_dim)
        obs_histogram == SliceCols(o, self.self_obs_dim, o.shape[2])
        self_embed == Sequential(self.self_encoder, obs_self, "self_encoder")
        histogram_embeds == Sequential(self.histogram_encoder, obs_histogram,
                                       "histogram_encoder")
        embeddings == torch_cat_dim1(self_embed, histogram_embeds, "cat")
    IN IF IsError(self_embed) THEN self_embed
       ELSE IF IsError(histogram_embeds) THEN histogram_embeds
       ELSE IF IsError(embeddings) THEN embeddings
       ELSE LinearForward(self.feed_forward, embeddings, "feed_forward")

(***************************************************************************)
(* The encoders' callers: the framework constructs an encoder from a       *)
(* configuration and calls forward on the batches the environment gives.   *)
(***************************************************************************)
\* The constructor arguments tried: cfg (hidden_size, and the seed that fixes
\* the layers' initial weights), self_obs_dim, neighbor_obs_dim,
\* neighbor_hidden_size.
MeanEncoderArgs ==
    { <<[hidden_size |-> 3, seed |-> 0], 1, 2, 2>>,
      <<[hidden_size |-> 2, seed |-> 1], 2, 2, 1>>,
      <<[hidden_size |-> 2, seed |-> 2], 1, 3, 2>>,
      <<[hidden_size |-> 3, seed |-> 3], 2, 3, 1>> }

\* cfg, self_obs_dim, histogram_bins, histogram_hidden_size.
HistogramEncoderArgs ==
    { <<[hidden_size |-> 3, seed |-> 1], 1, 3, 2>>,
      <<[hidden_size |-> 2, seed |-> 0], 2, 2, 3>> }

\* The values of an observation's elements.
Vals == {-1, 2}

\* The observation batches the environment may hand over: B rows of L
\* elements, L from the self segment alone up to max_width.
Batches(self_obs_dim, max_width) ==
    UNION { { Tensor(<<s[1], s[2]>>, [k \in 1..(s[1] * s[2]) |-> <<d[k], 1>>]) :
                d \in [1..(s[1] * s[2]) -> Vals] } :
            s \in { s \in (1..MaxBatch) \X (self_obs_dim..max_width) :
                       s[1] * s[2] <= MaxNumel } }

ConstructMeanEncoder ==
    /\ encoder = NoEncoder
    /\ \E a \in MeanEncoderArgs :
          encoder' = QuadMultiMeanEncoder_init(a[1], a[2], a[3], a[4])
    /\ UNCHANGED <<obs, out>>
    /\ UNCHANGED registryVars

ConstructHistogramEncoder ==
    /\ encoder = NoEncoder
    /\ \E a \in HistogramEncoderArgs :
          encoder' = QuadMultiHistogramEncoder_init(a[1], a[2], a[3], a[4])
    /\ UNCHANGED <<obs, out>>
    /\ UNCHANGED registryVars

MeanForward ==
    /\ encoder.kind = "QuadMultiMeanEncoder"
    /\ out = NoTensor
    /\ \E o \in Batches(encoder.self_obs_dim,
                         encoder.self_obs_dim + MaxNeighbors * encoder.neighbor_obs_dim) :
          /\ obs' = o
          /\ out' = QuadMultiMeanEncoder_forward(encoder, [obs |-> o])
    /\ UNCHANGED encoder
    /\ UNCHANGED registryVars

HistogramForward ==
    /\ encoder.kind = "QuadMultiHistogramEncoder"
    /\ out = NoTensor
    /\ \E o \in Batches(encoder.self_obs_dim,
                         encoder.self_obs_dim + encoder.histogram_bins) :
          /\ obs' = o
          /\ out' = QuadMultiHistogramEncoder_forward(encoder, [obs |-> o])
    /\ UNCHANGED encoder
    /\ UNCHANGED registryVars

\* The caller has consumed the output; the next batch may come.
NextBatch ==
    /\ out # NoTensor
    /\ obs' = NoTensor
    /\ out' = NoTensor
    /\ UNCHANGED encoder
    /\ UNCHANGED registryVars

InitEncoders ==
    /\ ENCODER_REGISTRY = [k \in RecognizedKeys |->
          IF k = DEEPSET THEN "QuadMultiMeanEncoder" ELSE "QuadMultiHistogramEncoder"]
    /\ initial_registry = ENCODER_REGISTRY
    /\ reg_calls = <<>>
    /\ history = <<>>
    /\ encoder = NoEncoder
    /\ obs = NoTensor
    /\ out = NoTensor

NextEncoders ==
    \/ ConstructMeanEncoder
    \/ ConstructHistogramEncoder
    \/ MeanForward
    \/ HistogramForward
    \/ NextBatch

SpecEncoders == InitEncoders /\ [][NextEncoders]_vars

(***************************************************************************)
(* Claims about the encoders.                                              *)
(***************************************************************************)
MeanDone == encoder.kind = "QuadMultiMeanEncoder" /\ out # NoTensor

HistogramDone == encoder.kind = "QuadMultiHistogramEncoder" /\ out # NoTensor

\* The length of the observation's segment after the self segment.
SegmentLen == obs.shape[2] - encoder.self_obs_dim

\* The neighbor segment holds N >= 1 whole neighbors.
WholeNeighbors ==
    /\ SegmentLen >= encoder.neighbor_obs_dim
    /\ SegmentLen % encoder.neighbor_obs_dim = 0

NumNeighbors == SegmentLen \div encoder.neighbor_obs_dim

\* Row i of a 2-D tensor.
Row(t, i) == SubSeq(t.data, (i - 1) * t.shape[2] + 1, i * t.shape[2])

\* The one-row batch holding row i of t.
OneRow(t, i) == Tensor(<<1, t.shape[2]>>, Row(t, i))

\* Neighbor block j of row i of the observation t.
Block(t, i, j) ==
    SubSeq(Row(t, i), encoder.self_obs_dim + (j - 1) * encoder.neighbor_obs_dim + 1,
           encoder.self_obs_dim + j * encoder.neighbor_obs_dim)

Perms(n) == {p \in [1..n -> 1..n] : \A a, b \in 1..n : p[a] = p[b] => a = b}

\* The observation t with the neighbor blocks of row i permuted by p.
PermuteNeighbors(t, i, p) ==
    LET C == t.shape[2]
        S == encoder.self_obs_dim
        D == encoder.neighbor_obs_dim
    IN Tensor(t.shape,
              [k \in 1..Numel(t) |->
                  LET r == (k - 1) \div C
                      c == (k - 1) % C
                  IN IF r + 1 = i /\ c >= S
                     THEN t.data[r * C + S + (p[((c - S) \div D) + 1] - 1) * D
                                 + ((c - S) % D) + 1]
                     ELSE t.data[k]])

\* The rows of t in reverse order.
ReverseRows(t) ==
    LET B == t.shape[1]
        C == t.shape[2]
    IN Tensor(t.shape,
              [k \in 1..Numel(t) |-> t.data[(B - 1 - ((k - 1) \div C)) * C + ((k - 1) % C) + 1]])

\* C5: for a batch of B >= 1 rows holding N >= 1 whole neighbors each, the
\* mean encoder's forward returns a tensor of shape (B, cfg.hidden_size),
\* whatever N is.
C5_MeanOutputShape ==
    (MeanDone /\ WholeNeighbors) =>
        /\ IsTensor(out)
        /\ out.shape = <<obs.shape[1], encoder.cfg.hidden_size>>

C5_Witness ==
    /\ MeanDone /\ WholeNeighbors
    /\ obs.shape[1] = 2
    /\ NumNeighbors = 2
    /\ encoder.cfg.hidden_size = 3
    /\ encoder.neighbor_hidden_size = 2
    /\ out.shape = <<2, 3>>

\* C6: for a batch of B >= 1 rows of self_obs_dim + histogram_bins elements
\* the histogram encoder's forward returns a tensor of shape
\* (B, cfg.hidden_size), and encoder_out_size is cfg.hidden_size, the second
\* dimension of the output.
C6_HistogramOutputShape ==
    (HistogramDone /\ SegmentLen = encoder.histogram_bins) =>
        /\ IsTensor(out)
        /\ out.shape = <<obs.shape[1], encoder.cfg.hidden_size>>
        /\ encoder.encoder_out_size = encoder.cfg.hidden_size
        /\ encoder.encoder_out_size = out.shape[2]

C6_Witness ==
    /\ HistogramDone
    /\ SegmentLen = encoder.histogram_bins
    /\ encoder.histogram_bins = 3
    /\ encoder.cfg.hidden_size = 3
    /\ obs.shape[1] = 2
    /\ out.shape = <<2, 3>>

C9_MalformedSegmentRaises ==
    (MeanDone /\ SegmentLen % encoder.neighbor_obs_dim # 0) =>
        /\ IsError(out)
        /\ out.error = "RuntimeError"
        /\ out.at \in {"reshape(-1, neighbor_obs_dim)",
                       "reshape(batch_size, -1, neighbor_hidden_size)"}

\* The first reshape succeeds, B * R being a multiple of neighbor_obs_dim,
\* and the second raises.
C9_Witness ==
    /\ MeanDone
    /\ SegmentLen % encoder.neighbor_obs_dim # 0
    /\ (obs.shape[1] * SegmentLen) % encoder.neighbor_obs_dim = 0
    /\ IsError(out)
    /\ out.at = "reshape(batch_size, -1, neighbor_hidden_size)"

\* C10: the regrouped neighbor embeddings hold at [i, j] the embedding of
\* neighbor j of row i, and row i of the output is what forward returns for
\* row i alone, so it does not depend on the other rows; reordering the rows
\* reorders the output rows alike.
C10_RowsDoNotInterfere ==
    (MeanDone /\ WholeNeighbors) =>
        LET B == obs.shape[1]
            N == NumNeighbors
            H == encoder.neighbor_hidden_size
            e == QuadMultiMeanEncoder_neighbor_embeds(encoder, obs)
            rev == QuadMultiMeanEncoder_forward(encoder, [obs |-> ReverseRows(obs)])
        IN /\ IsTensor(out)
           /\ e.shape = <<B, N, H>>
           /\ \A i \in 1..B : \A j \in 1..N :
                 SubSeq(e.data, ((i - 1) * N + (j - 1)) * H + 1, ((i - 1) * N + j) * H)
                    = Sequential(encoder.neighbor_encoder,
                                 Tensor(<<1, encoder.neighbor_obs_dim>>, Block(obs, i, j)),
                                 "neighbor_encoder").data
           /\ \A i \in 1..B :
                 /\ Row(out, i)
                       = Row(QuadMultiMeanEncoder_forward(encoder, [obs |-> OneRow(obs, i)]), 1)
                 /\ Row(rev, B + 1 - i) = Row(out, i)

C10_Witness ==
    /\ MeanDone /\ WholeNeighbors
    /\ IsTensor(out)
    /\ obs.shape[1] = 2
    /\ NumNeighbors = 2
    /\ Row(obs, 1) # Row(obs, 2)
    /\ Row(out, 1) # Row(out, 2)
    /\ Block(obs, 1, 2) # Block(obs, 2, 1)

====
